---- MODULE Spec2Model ----
(***************************************************************************)
(* Evidence intake and status reconciliation of AuthenX.                   *)
(*                                                                         *)
(* The durable state is the remote store (assets, required_documents, the  *)
(* asset-images bucket).  The beneficiary's dashboard (UserDashboard.tsx,  *)
(* two variants in the file) and the reviewer's dashboard                  *)
(* (BankAdminDashboard.tsx) are React components: a handler sees the state *)
(* of the render it was created in for its whole run, across every await,  *)
(* while setState calls change the state of later renders only.  An        *)
(* operation in flight therefore carries what it captured when the user    *)
(* started it.                                                             *)
(***************************************************************************)
EXTENDS Integers, Sequences, FiniteSets, Bags, TLC

\* ---------------------------------------------------------------- bounds
MaxDocs == 2        \* required documents of the asset: 0..MaxDocs
MaxUploads == 2     \* distinct Date.now() readings handed out as file names
MaxFaults == 1      \* failing calls to the collaborators in one behaviour
MaxDegrees == 1     \* whole degrees of the coordinates given to the geotag helpers

Null == "null"
NoUrl == 0                   \* a null image_url
NoCoord == 999               \* a null latitude or longitude

UserIds == {"u1", "u2"}
AssetIds == {"a1"}
Names == 1..MaxUploads       \* Date.now() readings used as file names

StoreThenVerify == "store-then-verify"   \* UserDashboard.tsx:133-1003
VerifyThenStore == "verify-then-store"   \* UserDashboard.tsx:1641-2351
Variants == {StoreThenVerify, VerifyThenStore}

NonVerified == "non-verified"
Pending == "pending"
Authenticated == "authenticated"

UnknownLocation == "Unknown Location"
Stamp == "iso-timestamp"     \* new Date().toISOString()

\* what is stored under a file name: nothing, or an image together with the
\* verifier's answer about that image so far
NoFile == "none"
Unverified == "unverified"
Accepted == "accepted"
Rejected == "rejected"

VARIABLES
  variant,             \* which UserDashboard variant is deployed
  faults,              \* failures of calls to the collaborators still to come
  overlap,             \* dashboard operations the user lets run at the same time
  users,               \* table users: id -> record
  assets,              \* table assets: id -> record
  required_documents,  \* table required_documents: asset id -> rows ordered by id
  storage,             \* bucket asset-images: asset id -> (file name -> object)
  now,                 \* last Date.now() reading handed out as a file name
  selectedAsset,       \* UserDashboard state
  requiredDocs,
  assetImages,
  processing,
  uploading,
  showUploadDialog,
  showCamera,
  ops,                 \* bag of the dashboard operations in flight
  selectedUser,        \* BankAdminDashboard state
  assetDetails,
  detailsFetch,        \* fetchAssetDetails calls in flight
  position,            \* the coordinates handed to insertExifIntoJpegDataUrl
  gpsIfd,              \* the GPS tags of the JPEG it produced
  exifPosition,        \* the coordinates the file handlers read from those tags
  appState,            \* App state
  phone,
  userRole,
  calls,               \* the calls to the auth service App is waiting for
  otp                  \* auth service: the phones a one-time password is out for

durable == <<assets, required_documents, storage, now>>
local == <<selectedAsset, requiredDocs, assetImages, processing, uploading,
           showUploadDialog, showCamera>>
admin == <<selectedUser, assetDetails, detailsFetch>>
geotag == <<position, gpsIfd, exifPosition>>
app == <<appState, phone, userRole, calls, otp>>
vars == <<variant, faults, overlap, users, assets, required_documents, storage, now,
          selectedAsset, requiredDocs, assetImages, processing,
          uploading, showUploadDialog, showCamera, ops, selectedUser,
          assetDetails, detailsFetch, position, gpsIfd, exifPosition,
          appState, phone, userRole, calls, otp>>

\* ------------------------------------------------------------ data model
\* interface Asset: the fields the core reads and writes
NewAsset ==
  [status |-> NonVerified, image_url |-> NoUrl, latitude |-> NoCoord,
   longitude |-> NoCoord, location_address |-> Null]

\* a users row as handleAddUser inserts it (BankAdminDashboard.tsx:144-156)
NewUser == [status |-> NonVerified]

\* a required_documents row as handleAddUser inserts it
NewDoc == [is_uploaded |-> FALSE, uploaded_at |-> Null]

\* the details the reviewer's popup holds
NoDetails == [id |-> Null, status |-> Null]

\* an operation in flight: where it stands (pc), its arguments, and the
\* values of the render that started it (cSel: selectedAsset; cFires: the
\* reconciler's test over that render's requiredDocs and assetImages);
\* blob is the image of an upload with the verifier's answer about it;
\* again tells whether a toggle's update found its value already in the row
NoOp ==
  [kind |-> "none", pc |-> "idle", cSel |-> Null, cFires |-> FALSE,
   doc |-> 0, val |-> FALSE, url |-> 0, origin |-> "none",
   lat |-> 0, lon |-> 0, name |-> 0, blob |-> NoFile, again |-> FALSE]

InFlight == BagToSet(ops)
Idle == ops = EmptyBag
\* the user acts (a click, a file, a button) only while fewer than overlap
\* operations are running
HasFreeSlot == BagCardinality(ops) < overlap
Start(o) == ops (+) SetToBag({o})
Replace(o, o2) == (ops (-) SetToBag({o})) (+) SetToBag({o2})
End(o) == ops (-) SetToBag({o})

\* outcome of one call to a collaborator (store, verifier, geocoder, device)
Outcomes == IF faults > 0 THEN {"ok", "fail"} ELSE {"ok"}

\* the failures among the outcomes of one step are taken from those to come
Failed(outcomes) == Cardinality({i \in DOMAIN outcomes : outcomes[i] = "fail"})
Spend(outcomes) ==
  /\ Failed(outcomes) <= faults
  /\ faults' = faults - Failed(outcomes)

\* storage.list(assetId + "/"): the names of the stored objects
ListFiles(a) == {n \in Names : storage[a][n] # NoFile}

\* the reconciler's condition over a document list and an image list
\* (UserDashboard.tsx:466-470 and 1879-1883)
AllUploaded(docs) == Len(docs) > 0 /\ \A i \in 1..Len(docs) : docs[i].is_uploaded
EnoughImages(docs, imgs) == Cardinality(imgs) >= Len(docs)
PendingCondition(docs, imgs) == AllUploaded(docs) /\ EnoughImages(docs, imgs)

\* the same condition over the durable store
DurableCondition(a) == PendingCondition(required_documents[a], ListFiles(a))

\* ------------------------------------------------------------------ Init
InitStore ==
  /\ users = [u \in UserIds |-> NewUser]
  /\ assets = [a \in AssetIds |-> NewAsset]
  /\ \E n \in 0..MaxDocs :
       required_documents = [a \in AssetIds |-> [i \in 1..n |-> NewDoc]]
  /\ storage = [a \in AssetIds |-> [n \in Names |-> NoFile]]
  /\ now = 0
  /\ selectedAsset = Null
  /\ requiredDocs = <<>>
  /\ assetImages = {}
  /\ processing = FALSE
  /\ uploading = FALSE
  /\ showUploadDialog = FALSE
  /\ showCamera = FALSE
  /\ ops = EmptyBag
  /\ selectedUser = Null
  /\ assetDetails = NoDetails
  /\ detailsFetch = {}

\* no photo has been tagged
NoPosition == <<>>
NoRational == <<<<0, 1>>, <<0, 1>>, <<0, 1>>>>
NoGps ==
  [GPSLatitudeRef |-> Null, GPSLatitude |-> NoRational,
   GPSLongitudeRef |-> Null, GPSLongitude |-> NoRational]
InitGeotag ==
  /\ position = NoPosition
  /\ gpsIfd = NoGps
  /\ exifPosition = NoPosition

\* a phone number is the sequence of its characters
NoPhone == <<>>
BeneficiaryPhone == <<"+", "9", "1", "9", "8", "7", "6", "5", "4", "3", "2", "1", "0">>

\* App shows the beneficiary's dashboard: the state UserDashboard is
\* rendered in (unnamed/part_000:133-136)
Mounted ==
  /\ appState = "dashboard"
  /\ phone = BeneficiaryPhone
  /\ userRole = "user"
  /\ calls = {}
  /\ otp = {}

\* one operation at a time, as the dashboard is meant to be used
Init ==
  /\ variant \in Variants
  /\ faults = MaxFaults
  /\ overlap = 1
  /\ InitStore
  /\ InitGeotag
  /\ Mounted

\* two operations may overlap; no call fails
InitOverlap ==
  /\ variant \in Variants
  /\ faults = 0
  /\ overlap = 2
  /\ InitStore
  /\ InitGeotag
  /\ Mounted

\* ------------------------------------------------ reads of the remote store
\* fetchRequiredDocuments: on an error the first variant empties the list,
\* the second leaves it (UserDashboard.tsx:196-214, 1693-1705)
fetchRequiredDocuments(a, outcome) ==
  IF outcome = "ok" THEN required_documents[a]
  ELSE IF variant = StoreThenVerify THEN <<>> ELSE requiredDocs

\* fetchAssetImages: on an error the list is emptied
\* (UserDashboard.tsx:250-271, 1736-1753)
fetchAssetImages(a, outcome) == IF outcome = "ok" THEN ListFiles(a) ELSE {}

\* --------------------------------------------------- dialog (UserDashboard)
\* the dialog body is replaced by a spinner while processing is set
\* (UserDashboard.tsx:866-870, 2184-2190)
DialogInteractive == showUploadDialog /\ ~processing /\ selectedAsset # Null

\* openAssetDialog: select the asset, open the dialog, fetch images and
\* documents (UserDashboard.tsx:723-728, 2040-2045).  The asset cards are
\* behind the modal dialog and the camera overlay while either is shown.
openAssetDialog(a) ==
  /\ ~showUploadDialog /\ ~showCamera
  /\ HasFreeSlot
  /\ selectedAsset' = a
  /\ showUploadDialog' = TRUE
  /\ \E li \in Outcomes, rd \in Outcomes :
       /\ Spend(<<li, rd>>)
       /\ assetImages' = fetchAssetImages(a, li)
       /\ requiredDocs' = fetchRequiredDocuments(a, rd)
  /\ UNCHANGED <<geotag, variant, users, app, overlap, durable, processing, uploading, showCamera,
                 ops, admin>>

\* onOpenChange(false): the Close button clears the selection and the lists
\* (UserDashboard.tsx:852-859, 2170-2177)
CloseDialog ==
  /\ showUploadDialog
  /\ HasFreeSlot
  /\ selectedAsset' = Null
  /\ assetImages' = {}
  /\ requiredDocs' = <<>>
  /\ showUploadDialog' = FALSE
  /\ UNCHANGED <<geotag, variant, users, app, faults, overlap, durable, processing, uploading, showCamera,
                 ops, admin>>

\* ------------------------------------------------------ status reconciler
\* checkAndSetPendingStatus as run by operation o: re-fetch documents and
\* images into component state, then test requiredDocs and assetImages and
\* write status pending if the test holds.  The two names are constants of
\* the render the running handler belongs to, so the setRequiredDocs and
\* setAssetImages of the fetches just awaited are not visible to the test:
\* its value is o.cFires (UserDashboard.tsx:453-490, 1874-1897).  as0 is the
\* assets table the evaluation starts from.
Reconciled(o, as0, rd, li, wr) ==
  IF o.cSel = Null
  THEN [docs |-> requiredDocs, imgs |-> assetImages, assets |-> as0]
  ELSE [docs |-> fetchRequiredDocuments(o.cSel, rd),
        imgs |-> fetchAssetImages(o.cSel, li),
        assets |-> IF o.cFires /\ wr = "ok"
                   THEN [as0 EXCEPT ![o.cSel].status = Pending]
                   ELSE as0]

\* a handler without its finally block: the handler C31 does not hold of
FinishWithoutFinally(o) ==
  /\ processing' = processing
  /\ uploading' = IF o.kind = "upload" /\ o.origin = "camera"
                  THEN FALSE ELSE uploading
  /\ showCamera' = IF o.kind = "upload" /\ o.origin = "camera"
                   THEN FALSE ELSE showCamera
  /\ showUploadDialog' = IF o.kind = "upload" /\ o.origin = "file"
                         THEN FALSE ELSE showUploadDialog

\* what the end of a handler does to the dialog flags: the finally blocks of
\* handleDeleteImage and uploadImageToSupabase clear processing; after
\* uploadImageToSupabase returns the camera handler hides the camera and
\* clears uploading, the gallery and drop handlers close the dialog
\* (UserDashboard.tsx:312-314, 441-444, 574-584, 640-641, 708-709)
Finish(o) ==
  /\ processing' = IF o.kind \in {"delete", "upload"}
                   THEN FALSE ELSE processing
  /\ uploading' = IF o.kind = "upload" /\ o.origin = "camera"
                  THEN FALSE ELSE uploading
  /\ showCamera' = IF o.kind = "upload" /\ o.origin = "camera"
                   THEN FALSE ELSE showCamera
  /\ showUploadDialog' = IF o.kind = "upload" /\ o.origin = "file"
                         THEN FALSE ELSE showUploadDialog

\* the last step of every operation that reaches the reconciler: the image
\* list refresh, the evaluation, and the handler's end
checkAndSetPendingStatusWith(o, rd, li, wr) ==
  /\ o.pc = "check"
  /\ Spend(<<rd, li, wr>>)
  /\ wr = "fail" => o.cFires
  /\ LET r == Reconciled(o, assets, rd, li, wr) IN
       /\ requiredDocs' = r.docs
       /\ assetImages' = r.imgs
       /\ assets' = r.assets
  /\ Finish(o)
  /\ ops' = End(o)
  /\ UNCHANGED <<geotag, variant, users, app, overlap, required_documents, storage, now,
                 selectedAsset, admin>>

checkAndSetPendingStatus(o) ==
  /\ o.pc = "check"
  /\ \E rd \in Outcomes, li \in Outcomes, wr \in Outcomes :
       checkAndSetPendingStatusWith(o, rd, li, wr)

\* ------------------------------------------------------ document checklist
\* the checkbox is controlled: the value sent is the negation of the flag
\* shown (UserDashboard.tsx:221, 946-952, 2276-2285)
handleDocumentCheck(i) ==
  /\ DialogInteractive
  /\ i \in 1..Len(requiredDocs)
  /\ HasFreeSlot
  /\ ops' = Start([NoOp EXCEPT !.kind = "toggle", !.pc = "update",
                     !.cSel = selectedAsset,
                     !.cFires = PendingCondition(requiredDocs, assetImages),
                     !.doc = i, !.val = ~requiredDocs[i].is_uploaded])
  /\ UNCHANGED <<geotag, variant, users, app, faults, overlap, durable, local, admin>>

\* a row written with a fresh timestamp whichever value is given: the
\* update C26 does not hold of
ToggledDocAlwaysStamped(newValue) ==
  [is_uploaded |-> newValue, uploaded_at |-> Stamp]

\* the row as the update writes it (UserDashboard.tsx:225-228)
ToggledDoc(newValue) ==
  [is_uploaded |-> newValue, uploaded_at |-> IF newValue THEN Stamp ELSE Null]

\* the row a toggle is about to update holds the toggle's value already
RepeatsValue(o) ==
  required_documents[o.cSel][o.doc].is_uploaded = o.val

\* the update of required_documents and, when it succeeds, the map over the
\* current component state (UserDashboard.tsx:223-237, 1709-1727)
updateRequiredDocument(o) ==
  /\ o.kind = "toggle" /\ o.pc = "update"
  /\ \E up \in Outcomes :
       /\ Spend(<<up>>)
       /\ IF up = "ok"
          THEN /\ required_documents' =
                    [required_documents EXCEPT ![o.cSel][o.doc] = ToggledDoc(o.val)]
               /\ requiredDocs' =
                    [i \in 1..Len(requiredDocs) |->
                       IF i = o.doc THEN ToggledDoc(o.val) ELSE requiredDocs[i]]
               /\ ops' = Replace(o, [o EXCEPT !.pc = "check",
                                                !.again = RepeatsValue(o)])
          ELSE /\ UNCHANGED <<required_documents, requiredDocs>>
               /\ ops' = End(o)
  /\ UNCHANGED <<geotag, variant, users, app, overlap, assets, storage, now,
                 selectedAsset, assetImages, processing, uploading,
                 showUploadDialog, showCamera, admin>>

\* -------------------------------------------------- verification gate
Absent == "absent"          \* a field the JSON body does not carry
JsonBooleans == {"true", "false"}
Scores == {"0.2", "0.9"}    \* authenticity scores

\* the answers of POST /verify-image: a transport fault, a non-OK status,
\* or a JSON body in the shape {is_real, authenticity_score}, in the shape
\* {valid, score}, in both (with one score) or in neither
Bodies ==
  [kind : {"ok"}, is_real : JsonBooleans \cup {Absent},
   valid : JsonBooleans \cup {Absent},
   authenticity_score : Scores \cup {Absent}, score : Scores \cup {Absent}]
OkResponses ==
  {r \in Bodies :
     /\ (r.is_real = Absent) = (r.authenticity_score = Absent)
     /\ (r.valid = Absent) = (r.score = Absent)
     /\ r.is_real # Absent /\ r.valid # Absent => r.authenticity_score = r.score}
FaultResponses ==
  {[kind |-> k, is_real |-> Absent, valid |-> Absent,
    authenticity_score |-> Absent, score |-> Absent] : k \in {"non-ok", "network-error"}}
Responses == OkResponses \cup FaultResponses

\* what the verifier said about the image: real only by an explicit true
GateSaysReal(r) ==
  /\ r.kind = "ok"
  /\ IF r.is_real \in JsonBooleans THEN r.is_real = "true" ELSE r.valid = "true"

\* a verifyImage that takes a failed call for an accept: the decoding C23
\* does not hold of
verifyImageFailingOpen(r) ==
  IF r.kind = "network-error"
  THEN [is_real |-> TRUE, authenticity_score |-> "0", reason |-> "network-error"]
  ELSE IF r.kind = "non-ok"
  THEN [is_real |-> TRUE, authenticity_score |-> "0", reason |-> "verify-failed"]
  ELSE [is_real |-> IF r.is_real \in JsonBooleans THEN r.is_real = "true"
                    ELSE r.valid = "true",
        authenticity_score |->
          IF r.authenticity_score # Absent THEN r.authenticity_score
          ELSE IF r.score # Absent THEN r.score ELSE "0",
        reason |-> ""]

\* a decoding that accepts only above a score threshold: the decoding C36
\* does not hold of
verifyImageByScore(r) ==
  IF r.kind = "network-error"
  THEN [is_real |-> FALSE, authenticity_score |-> "0", reason |-> "network-error"]
  ELSE IF r.kind = "non-ok"
  THEN [is_real |-> FALSE, authenticity_score |-> "0", reason |-> "verify-failed"]
  ELSE [is_real |-> /\ IF r.is_real \in JsonBooleans THEN r.is_real = "true"
                       ELSE r.valid = "true"
                    /\ "0.2" \notin {r.authenticity_score, r.score},
        authenticity_score |->
          IF r.authenticity_score # Absent THEN r.authenticity_score
          ELSE IF r.score # Absent THEN r.score ELSE "0",
        reason |-> ""]

\* verifyImage of the first variant (UserDashboard.tsx:322-345)
verifyImage(r) ==
  IF r.kind = "network-error"
  THEN [is_real |-> FALSE, authenticity_score |-> "0", reason |-> "network-error"]
  ELSE IF r.kind = "non-ok"
  THEN [is_real |-> FALSE, authenticity_score |-> "0", reason |-> "verify-failed"]
  ELSE [is_real |-> IF r.is_real \in JsonBooleans THEN r.is_real = "true"
                    ELSE r.valid = "true",
        authenticity_score |->
          IF r.authenticity_score # Absent THEN r.authenticity_score
          ELSE IF r.score # Absent THEN r.score ELSE "0",
        reason |-> ""]

\* an inline verification that takes anything but an explicit false for an
\* accept: the decoding C9 does not hold of
verifyInlineUnlessFalse(r) ==
  IF r.kind = "network-error"
  THEN [is_real |-> FALSE, authenticity_score |-> "0", reason |-> Absent]
  ELSE IF r.kind = "non-ok"
  THEN [is_real |-> FALSE, authenticity_score |-> "0", reason |-> Absent]
  ELSE [is_real |-> r.is_real # "false",
        authenticity_score |->
          IF r.authenticity_score # Absent THEN r.authenticity_score ELSE "0",
        reason |-> "Rejected"]

\* the inline verification of the second variant: a transport fault throws,
\* a non-OK status returns, and only is_real === true accepts
\* (UserDashboard.tsx:1799-1823)
verifyInline(r) ==
  IF r.kind = "network-error"
  THEN [is_real |-> FALSE, authenticity_score |-> "0", reason |-> Absent]
  ELSE IF r.kind = "non-ok"
  THEN [is_real |-> FALSE, authenticity_score |-> "0", reason |-> Absent]
  ELSE [is_real |-> r.is_real = "true",
        authenticity_score |->
          IF r.authenticity_score # Absent THEN r.authenticity_score ELSE "0",
        reason |-> "Rejected"]

\* the verifier cannot find real an image it cannot fetch, and it answers
\* the same about the same image every time
Answerable(r, object) ==
  /\ object = NoFile => ~GateSaysReal(r)
  /\ r.kind = "ok" /\ object = Accepted => GateSaysReal(r)
  /\ r.kind = "ok" /\ object = Rejected => ~GateSaysReal(r)

\* the stored object with the verifier's answer about it
Judged(r, object) ==
  IF object = NoFile \/ r.kind # "ok" THEN object
  ELSE IF GateSaysReal(r) THEN Accepted ELSE Rejected

\* ---------------------------------------------------------- image capture
Here == <<12, 77>>          \* a position the device or the file's tags report
NoFix == <<0, 0>>           \* lat = 0, lon = 0 when no position is available

\* the coordinates a capture hands to uploadImageToSupabase: the camera and
\* gallery handlers ask the device (the first variant reads the file's GPS
\* tags first) and fall back to 0, 0; the second variant's drop handler
\* passes 0, 0 (UserDashboard.tsx:552-565, 602-634, 673-702, 1958-1972,
\* 1999-2011, 2029)
CaptureCoordinates(source) ==
  IF variant = VerifyThenStore /\ source = "drop" THEN {NoFix}
  ELSE {Here, NoFix}

\* whether the device gave the position
Located(source, c) ==
  IF c = NoFix /\ ~(variant = VerifyThenStore /\ source = "drop")
  THEN "fail" ELSE "ok"

\* "Open Camera": the dialog is hidden without clearing the selection
\* (UserDashboard.tsx:495-507, 1902-1910)
handleCameraCapture ==
  /\ DialogInteractive
  /\ HasFreeSlot
  /\ showUploadDialog' = FALSE
  /\ showCamera' = TRUE
  /\ UNCHANGED <<geotag, variant, users, app, faults, overlap, durable, selectedAsset, requiredDocs,
                 assetImages, processing, uploading, ops, admin>>

\* the camera overlay's Cancel button, or getUserMedia failing
\* (UserDashboard.tsx:519-522, 987-993)
CancelCamera ==
  /\ showCamera
  /\ HasFreeSlot
  /\ showCamera' = FALSE
  /\ UNCHANGED <<geotag, variant, users, app, faults, overlap, durable, selectedAsset, requiredDocs,
                 assetImages, processing, uploading, showUploadDialog, ops,
                 admin>>

\* what an upload handler is given: the camera's video element, or the
\* file of the input or drop event, which may be missing
Inputs == {"present", "missing"}

\* handlers that go on whatever they are given: the test C28 does not hold of
AbortsBeforeCallsNever(input) == FALSE

\* the handlers' first tests: without an asset selected, and without the
\* video element or the file, they end before anything is called
\* (UserDashboard.tsx:537-543, 591-592, 658-663, 1943-1949, 1993-1994,
\* 2022-2025)
AbortsBeforeCalls(input) == input = "missing" \/ selectedAsset = Null

\* uploads that have not read the clock yet
Unnamed == {o \in InFlight : o.kind = "upload" /\ o.pc = "name"}
CanStartUpload ==
  /\ HasFreeSlot
  /\ now + BagCardinality([o \in Unnamed |-> CopiesIn(o, ops)]) < MaxUploads

\* an upload operation as its handler starts it, with the render's values
StartedUpload(origin, c) ==
  [NoOp EXCEPT !.kind = "upload", !.pc = "name", !.cSel = selectedAsset,
               !.cFires = PendingCondition(requiredDocs, assetImages),
               !.origin = origin, !.lat = c[1], !.lon = c[2],
               !.blob = Unverified]

\* "Capture & Upload", disabled while uploading
\* (UserDashboard.tsx:536-572, 979-985, 1943-1975)
captureWith(input) ==
  /\ showCamera /\ ~uploading
  /\ IF AbortsBeforeCalls(input)
     THEN UNCHANGED vars
     ELSE /\ CanStartUpload
          /\ uploading' = TRUE
          /\ \E c \in CaptureCoordinates("camera") :
               /\ Spend(<<Located("camera", c)>>)
               /\ ops' = Start(StartedUpload("camera", c))
          /\ UNCHANGED <<geotag, variant, users, app, overlap, durable, selectedAsset,
                         requiredDocs, assetImages, processing,
                         showUploadDialog, showCamera, admin>>

handleCaptureAndUploadWithExif == \E input \in Inputs : captureWith(input)

\* a file picked or dropped in the dialog: the handler returns as soon as the
\* file reader is started, so the first variant's setUploading(true) is
\* undone by its finally before anything is uploaded
\* (UserDashboard.tsx:590-651, 656-718, 1988-2033)
StartFileUploadWith(source, input) ==
  /\ showUploadDialog /\ ~processing
  /\ IF AbortsBeforeCalls(input)
     THEN UNCHANGED vars
     ELSE /\ CanStartUpload
          /\ uploading' = IF variant = StoreThenVerify THEN FALSE ELSE uploading
          /\ \E c \in CaptureCoordinates(source) :
               /\ Spend(<<Located(source, c)>>)
               /\ ops' = Start(StartedUpload("file", c))
          /\ UNCHANGED <<geotag, variant, users, app, overlap, durable, selectedAsset,
                         requiredDocs, assetImages, processing,
                         showUploadDialog, showCamera, admin>>

StartFileUpload(source) == \E input \in Inputs : StartFileUploadWith(source, input)

handleGalleryUpload == StartFileUpload("gallery")

handleDrop == StartFileUpload("drop")

\* --------------------------------------------------------- upload pipeline
\* another upload in flight already holds the latest clock reading
ClockShared(o) ==
  \E t \in BagToSet(End(o)) : t.kind = "upload" /\ t.name # 0 /\ t.name = now

\* an operation ends without reaching the reconciler
Abandon(o) ==
  /\ Finish(o)
  /\ ops' = End(o)

\* an operation goes on to its next step
Goto(o, pc) ==
  /\ ops' = Replace(o, [o EXCEPT !.pc = pc])
  /\ UNCHANGED <<processing, uploading, showUploadDialog, showCamera>>

\* entry of uploadImageToSupabase: the file name is the Date.now() reading,
\* which two uploads running at the same time can share
\* (UserDashboard.tsx:353-359, 1784-1789)
uploadImageToSupabase(o) ==
  /\ o.kind = "upload" /\ o.pc = "name"
  /\ \E t \in {now, now + 1} :
       /\ t = now => ClockShared(o)
       /\ t \in Names
       /\ now' = t
       /\ ops' = Replace(o, [o EXCEPT !.name = t,
                               !.pc = IF variant = StoreThenVerify
                                      THEN "store" ELSE "verify"])
  /\ processing' = TRUE
  /\ UNCHANGED <<geotag, variant, users, app, faults, overlap, assets, required_documents, storage,
                 selectedAsset, requiredDocs, assetImages, uploading,
                 showUploadDialog, showCamera, admin>>

\* a storage write whose failure is not looked at: the write C35 does not
\* hold of
uploadFileWithAnyway(o, first, second) ==
  /\ o.kind = "upload" /\ o.pc = "store"
  /\ LET free == storage[o.cSel][o.name] = NoFile IN
       /\ Spend(<<first, second>>)
       /\ second = "fail" => variant = StoreThenVerify /\ ~(first = "ok" /\ free)
       /\ storage' = IF (first = "ok" /\ free) \/ (variant = StoreThenVerify /\ second = "ok")
                     THEN [storage EXCEPT ![o.cSel][o.name] = o.blob]
                     ELSE storage
       /\ Goto(o, IF variant = StoreThenVerify THEN "verify" ELSE "accept")
  /\ UNCHANGED <<geotag, variant, users, app, overlap, assets, required_documents, now,
                 selectedAsset, requiredDocs, assetImages, admin>>

\* storage.upload.  First variant: upsert false, and on any error a second
\* call with upsert true, whose error is thrown.  Second variant: upsert
\* false, and on an error the upload ends (UserDashboard.tsx:362-374,
\* 1826-1836)
uploadFileWith(o, first, second) ==
  /\ o.kind = "upload" /\ o.pc = "store"
  /\ LET free == storage[o.cSel][o.name] = NoFile IN
       /\ Spend(<<first, second>>)
       /\ second = "fail" => variant = StoreThenVerify /\ ~(first = "ok" /\ free)
       /\ IF variant = StoreThenVerify
          THEN IF (first = "ok" /\ free) \/ second = "ok"
               THEN /\ storage' = [storage EXCEPT ![o.cSel][o.name] = o.blob]
                    /\ Goto(o, "verify")
               ELSE /\ UNCHANGED storage
                    /\ Abandon(o)
          ELSE IF first = "ok" /\ free
               THEN /\ storage' = [storage EXCEPT ![o.cSel][o.name] = o.blob]
                    /\ Goto(o, "accept")
               ELSE /\ UNCHANGED storage
                    /\ Abandon(o)
  /\ UNCHANGED <<geotag, variant, users, app, overlap, assets, required_documents, now,
                 selectedAsset, requiredDocs, assetImages, admin>>

uploadFile(o) ==
  /\ o.pc = "store"
  /\ \E first \in Outcomes, second \in Outcomes : uploadFileWith(o, first, second)

\* the call of the verifier.  First variant: the verifier is given the
\* public URL and sees what is stored there now; a rejection goes on to the
\* removal.  Second variant: the verifier is given the blob, and anything
\* but an accept ends the upload (UserDashboard.tsx:386-389, 1799-1823)
verifierAnswers(o, r) ==
  /\ o.kind = "upload" /\ o.pc = "verify"
  /\ Spend(<<IF r.kind = "ok" THEN "ok" ELSE "fail">>)
  /\ IF variant = StoreThenVerify
     THEN /\ Answerable(r, storage[o.cSel][o.name])
          /\ storage' = [storage EXCEPT ![o.cSel][o.name] = Judged(r, @)]
          /\ Goto(o, IF verifyImage(r).is_real THEN "accept" ELSE "remove")
     ELSE /\ UNCHANGED storage
          /\ IF verifyInline(r).is_real
             THEN /\ ops' = Replace(o, [o EXCEPT !.pc = "store",
                                                !.blob = Judged(r, @)])
                  /\ UNCHANGED <<processing, uploading, showUploadDialog,
                                 showCamera>>
             ELSE Abandon(o)
  /\ UNCHANGED <<geotag, variant, users, app, overlap, assets, required_documents, now,
                 selectedAsset, requiredDocs, assetImages, admin>>

callVerifier(o) ==
  /\ o.pc = "verify"
  /\ \E r \in Responses : verifierAnswers(o, r)

\* a rejection that leaves the stored file where it is: the rejection C37
\* does not hold of
removeRejectedLeavingFile(o) ==
  /\ o.kind = "upload" /\ o.pc = "remove"
  /\ \E rm \in Outcomes : Spend(<<rm>>)
  /\ UNCHANGED storage
  /\ Abandon(o)
  /\ UNCHANGED <<geotag, variant, users, app, overlap, assets, required_documents, now,
                 selectedAsset, requiredDocs, assetImages, admin>>

\* first variant, rejected: remove the stored file, whose failure is ignored
\* (UserDashboard.tsx:389-404)
removeRejected(o) ==
  /\ o.kind = "upload" /\ o.pc = "remove"
  /\ \E rm \in Outcomes :
       /\ Spend(<<rm>>)
       /\ storage' = IF rm = "ok"
                  THEN [storage EXCEPT ![o.cSel][o.name] = NoFile]
                  ELSE storage
  /\ Abandon(o)
  /\ UNCHANGED <<geotag, variant, users, app, overlap, assets, required_documents, now,
                 selectedAsset, requiredDocs, assetImages, admin>>

\* what the call of the reverse geocoder comes to: a JSON body with a
\* display name, a failed fetch, a body that is not JSON, or a JSON body
\* without a display name
GeocoderFailures == {"network-error", "not-json", "no-display-name"}
GeocoderResults ==
  IF faults > 0 THEN {"display-name"} \cup GeocoderFailures ELSE {"display-name"}

\* a geocoder wrapper that gives null when there is no display name: the
\* wrapper C24 does not hold of
getAddressFromCoordsOrNull(result) ==
  IF result = "display-name" THEN "address" ELSE Null

\* getAddressFromCoords: the display name, or "Unknown Location" from the
\* catch and from the || (UserDashboard.tsx:82-92, 1587-1600)
getAddressFromCoords(result) ==
  IF result = "display-name" THEN "address" ELSE UnknownLocation

\* a preview update that writes the image's URL and leaves the position
\* fields as they were: the update C14 does not hold of
PreviewUpdatedUrlOnly(rec, o, geo) ==
  [rec EXCEPT !.image_url = o.name]

\* a preview update that writes the position and leaves the address as it
\* was: the update C25 does not hold of
PreviewUpdatedWithoutAddress(rec, o, geo) ==
  [rec EXCEPT !.image_url = o.name, !.latitude = o.lat, !.longitude = o.lon]

\* the asset record after the preview update of an accepted upload
\* (UserDashboard.tsx:407-416, 1843-1853)
PreviewUpdated(rec, o, geo) ==
  [rec EXCEPT !.image_url = o.name,
              !.latitude = o.lat,
              !.longitude = o.lon,
              !.location_address =
                 IF o.lat # NoCoord /\ o.lon # NoCoord
                 THEN getAddressFromCoords(geo) ELSE Null]

\* accepted: reverse geocoding and the update of the asset's preview fields,
\* whose failure is ignored (UserDashboard.tsx:406-418, 1841-1853)
updateAssetPreviewWith(o, geo, upd) ==
  /\ o.kind = "upload" /\ o.pc = "accept"
  /\ Spend(<<IF geo \in GeocoderFailures THEN "fail" ELSE "ok", upd>>)
  /\ assets' = IF upd = "ok"
            THEN [assets EXCEPT ![o.cSel] = PreviewUpdated(@, o, geo)]
            ELSE assets
  /\ ops' = Replace(o, [o EXCEPT !.pc = "check"])
  /\ UNCHANGED <<geotag, variant, users, app, overlap, required_documents, storage, now, local,
                 admin>>

updateAssetPreview(o) ==
  /\ o.pc = "accept"
  /\ \E geo \in GeocoderResults, upd \in Outcomes :
       updateAssetPreviewWith(o, geo, upd)

\* ------------------------------------------------------------ image deletion
\* the delete button of an image shown in the dialog
\* (UserDashboard.tsx:278-290, 925-927, 1758-1764)
\* a public URL of another bucket or site: it has no "/asset-images/" segment
ForeignUrl == 0

Urls == Names \cup {ForeignUrl}

\* publicUrl.split("/asset-images/").length >= 2 (UserDashboard.tsx:284-285, 1763)
HasSegment(publicUrl) == publicUrl \in Names

AbortedDeleteStillProcessing ==
  /\ processing' = TRUE
  /\ UNCHANGED <<geotag, variant, users, app, faults, overlap, durable, ops, selectedAsset,
                 requiredDocs, assetImages, uploading, showUploadDialog,
                 showCamera, admin>>

\* the return inside the try and the finally block (UserDashboard.tsx:285-288,
\* 311-313, 1763, 1769-1771)
AbortedDelete ==
  /\ processing' = FALSE
  /\ UNCHANGED <<geotag, variant, users, app, faults, overlap, durable, ops, selectedAsset,
                 requiredDocs, assetImages, uploading, showUploadDialog,
                 showCamera, admin>>

\* handleDeleteImage up to its first await: without the segment it returns
\* from inside the try, and the finally block puts processing back to false
handleDeleteImage(publicUrl) ==
  /\ DialogInteractive
  /\ IF HasSegment(publicUrl)
     THEN /\ publicUrl \in assetImages
          /\ HasFreeSlot
          /\ processing' = TRUE
          /\ ops' = Start([NoOp EXCEPT !.kind = "delete", !.pc = "remove",
                             !.cSel = selectedAsset,
                             !.cFires = PendingCondition(requiredDocs, assetImages),
                             !.url = publicUrl])
          /\ UNCHANGED <<geotag, variant, users, app, faults, overlap, durable, selectedAsset,
                         requiredDocs, assetImages, uploading, showUploadDialog,
                         showCamera, admin>>
     ELSE AbortedDelete

\* a deletion that ends after the removal without the reconciler: the
\* deletion C30 does not hold of
removeImageWithoutCheck(o) ==
  /\ o.kind = "delete" /\ o.pc = "remove"
  /\ \E rm \in Outcomes :
       /\ Spend(<<rm>>)
       /\ storage' = IF rm = "ok"
                     THEN [storage EXCEPT ![o.cSel][o.url] = NoFile]
                     ELSE storage
       /\ Abandon(o)
  /\ UNCHANGED <<geotag, variant, users, app, overlap, assets, required_documents, now,
                 selectedAsset, requiredDocs, assetImages, admin>>

\* storage.remove: the first variant stops on an error, the second does not
\* look at it (UserDashboard.tsx:292-296, 1765)
removeImage(o) ==
  /\ o.kind = "delete" /\ o.pc = "remove"
  /\ \E rm \in Outcomes :
       /\ Spend(<<rm>>)
       /\ IF rm = "ok"
          THEN /\ storage' = [storage EXCEPT ![o.cSel][o.url] = NoFile]
               /\ Goto(o, "check")
          ELSE /\ UNCHANGED storage
               /\ IF variant = StoreThenVerify
                  THEN Abandon(o)
                  ELSE Goto(o, "check")
  /\ UNCHANGED <<geotag, variant, users, app, overlap, assets, required_documents, now,
                 selectedAsset, requiredDocs, assetImages, admin>>

\* ------------------------------------------------- reviewer (BankAdminDashboard)
Users == {"u1"}
\* fetchAssetDetails: the single asset of the user
\* (BankAdminDashboard.tsx:75-79)
AssetOf(u) == IF u = "u1" THEN "a1" ELSE "a2"

\* the popup is rendered over the user list (BankAdminDashboard.tsx:472)
PopupOpen == selectedUser # Null /\ assetDetails # NoDetails

\* a row of the user list is clicked (BankAdminDashboard.tsx:106-109)
handleUserClick(u) ==
  /\ ~PopupOpen
  /\ selectedUser' = u
  /\ detailsFetch' = detailsFetch \cup {u}
  /\ UNCHANGED <<geotag, variant, users, app, faults, overlap, durable, local, ops, assetDetails>>

\* fetchAssetDetails returns (BankAdminDashboard.tsx:74-103)
fetchAssetDetails(u) ==
  /\ u \in detailsFetch
  /\ detailsFetch' = detailsFetch \ {u}
  /\ \E rd \in Outcomes :
       /\ Spend(<<rd>>)
       /\ assetDetails' = IF rd = "ok"
                       THEN [id |-> AssetOf(u), status |-> assets[AssetOf(u)].status]
                       ELSE assetDetails
  /\ UNCHANGED <<geotag, variant, users, app, overlap, durable, local, ops, selectedUser>>

\* the popup's X button (BankAdminDashboard.tsx:475-480)
ClosePopup ==
  /\ PopupOpen
  /\ selectedUser' = Null
  /\ UNCHANGED <<geotag, variant, users, app, faults, overlap, durable, local, ops, assetDetails, detailsFetch>>

\* a reviewer's handler that also unchecks the asset's documents: the
\* handler C27 does not hold of
handleStatusUpdateResettingDocs(newStatus) ==
  /\ PopupOpen
  /\ assetDetails.status = Pending
  /\ \E wr \in Outcomes :
       /\ Spend(<<wr>>)
       /\ assets' = IF wr = "ok"
                 THEN [assets EXCEPT ![assetDetails.id].status = newStatus]
                 ELSE assets
  /\ required_documents' =
       [required_documents EXCEPT
          ![assetDetails.id] = [i \in 1..Len(@) |-> NewDoc]]
  /\ selectedUser' = Null
  /\ UNCHANGED <<geotag, variant, users, app, overlap, storage, now,
                 local, ops, assetDetails, detailsFetch>>

\* a reviewer's handler that writes non-verified whichever button was
\* pressed: the handler C8 does not hold of
handleStatusUpdateAlwaysRejecting(newStatus) ==
  /\ PopupOpen
  /\ assetDetails.status = Pending
  /\ \E wr \in Outcomes :
       /\ Spend(<<wr>>)
       /\ assets' = IF wr = "ok"
                 THEN [assets EXCEPT ![assetDetails.id].status = NonVerified]
                 ELSE assets
  /\ selectedUser' = Null
  /\ UNCHANGED <<geotag, variant, users, app, overlap, required_documents, storage, now,
                 local, ops, assetDetails, detailsFetch>>

\* a reviewer's handler that writes the decision to the user record as
\* well: the handler C38 does not hold of
handleStatusUpdateOnUser(newStatus) ==
  /\ PopupOpen
  /\ assetDetails.status = Pending
  /\ \E wr \in Outcomes :
       /\ Spend(<<wr>>)
       /\ assets' = IF wr = "ok"
                 THEN [assets EXCEPT ![assetDetails.id].status = newStatus]
                 ELSE assets
  /\ users' = [users EXCEPT ![selectedUser].status = newStatus]
  /\ selectedUser' = Null
  /\ UNCHANGED <<geotag, variant, app, overlap, required_documents, storage, now,
                 local, ops, assetDetails, detailsFetch>>

\* Grant / Non-Grant, rendered when the details held say pending; the
\* update's error is not looked at (BankAdminDashboard.tsx:112-119, 536-560)
handleStatusUpdate(newStatus) ==
  /\ PopupOpen
  /\ assetDetails.status = Pending
  /\ \E wr \in Outcomes :
       /\ Spend(<<wr>>)
       /\ assets' = IF wr = "ok"
                 THEN [assets EXCEPT ![assetDetails.id].status = newStatus]
                 ELSE assets
  /\ selectedUser' = Null
  /\ UNCHANGED <<geotag, variant, users, app, overlap, required_documents, storage, now,
                 local, ops, assetDetails, detailsFetch>>

\* ------------------------------------------------------------ specification
\* A handler that returns before its first call leaves every variable as it
\* is, a step [][Next]_vars admits without Next naming it: Next takes the
\* capture, gallery, drop and delete handlers with their input present.
Next ==
  \/ \E a \in AssetIds : openAssetDialog(a)
  \/ CloseDialog
  \/ \E i \in 1..MaxDocs : handleDocumentCheck(i)
  \/ \E o \in InFlight : updateRequiredDocument(o)
  \/ \E o \in InFlight : checkAndSetPendingStatus(o)
  \/ handleCameraCapture
  \/ CancelCamera
  \/ captureWith("present")
  \/ StartFileUploadWith("gallery", "present")
  \/ StartFileUploadWith("drop", "present")
  \/ \E o \in InFlight : uploadImageToSupabase(o)
  \/ \E o \in InFlight : uploadFile(o)
  \/ \E o \in InFlight : callVerifier(o)
  \/ \E o \in InFlight : removeRejected(o)
  \/ \E o \in InFlight : updateAssetPreview(o)
  \/ \E u \in Names : handleDeleteImage(u)
  \/ \E o \in InFlight : removeImage(o)
  \/ \E u \in Users : handleUserClick(u)
  \/ \E u \in Users : fetchAssetDetails(u)
  \/ ClosePopup
  \/ handleStatusUpdate(Authenticated)
  \/ handleStatusUpdate(NonVerified)

Spec == Init /\ [][Next]_vars

SpecOverlap == InitOverlap /\ [][Next]_vars

\* the beneficiary's dashboard on its own, its handlers taken with every
\* input, missing ones included: the reviewer takes no step
NextDashboard ==
  \/ \E a \in AssetIds : openAssetDialog(a)
  \/ CloseDialog
  \/ \E i \in 1..MaxDocs : handleDocumentCheck(i)
  \/ \E o \in InFlight : updateRequiredDocument(o)
  \/ \E o \in InFlight : checkAndSetPendingStatus(o)
  \/ handleCameraCapture
  \/ CancelCamera
  \/ handleCaptureAndUploadWithExif
  \/ handleGalleryUpload
  \/ handleDrop
  \/ \E o \in InFlight : uploadImageToSupabase(o)
  \/ \E o \in InFlight : uploadFile(o)
  \/ \E o \in InFlight : callVerifier(o)
  \/ \E o \in InFlight : removeRejected(o)
  \/ \E o \in InFlight : updateAssetPreview(o)
  \/ \E u \in Urls : handleDeleteImage(u)
  \/ \E o \in InFlight : removeImage(o)

SpecDashboard == Init /\ [][NextDashboard]_vars

\* ------------------------------------------------------------ geotagging
\* Coordinates are counted in thousandths of an arc-second, so that a degree
\* is 3,600,000 units and the hundredths of a second the tags keep are 10
\* units each.
UnitsPerDegree == 3600000
UnitsPerMinute == 60000
UnitsPerSecond == 1000
Abs(x) == IF x < 0 THEN 0 - x ELSE x

\* parts of a degree the sampled coordinates end in: none, just below and at
\* half a hundredth of a second, 30 seconds, 59.996 seconds, 30 minutes 30
\* seconds
Fractions == {0, 4, 5, 30000, 59996, 1830000}
Coordinates ==
  {sign * (d * UnitsPerDegree + f) :
     sign \in {1, -1}, d \in 0..MaxDegrees, f \in Fractions}

\* an encoding that takes the parts of the coordinate as it is, sign
\* included: the encoding C22 does not hold of
degToRationalArraySigned(deg) ==
  LET d == deg \div UnitsPerDegree
      mFloat == deg - d * UnitsPerDegree
      m == mFloat \div UnitsPerMinute
      sec == (mFloat - m * UnitsPerMinute + 5) \div 10
  IN <<<<d, 1>>, <<m, 1>>, <<sec, 100>>>>

\* degToRationalArray: whole degrees, whole minutes, and the seconds rounded
\* to hundredths, as the rationals d/1, m/1, s/100 (UserDashboard.tsx:48-59)
degToRationalArray(deg) ==
  LET d == Abs(deg) \div UnitsPerDegree
      mFloat == Abs(deg) - d * UnitsPerDegree
      m == mFloat \div UnitsPerMinute
      sec == (mFloat - m * UnitsPerMinute + 5) \div 10
  IN <<<<d, 1>>, <<m, 1>>, <<sec, 100>>>>

\* getGpsIfd (UserDashboard.tsx:61-70)
getGpsIfd(lat, lon) ==
  [GPSLatitudeRef |-> IF lat >= 0 THEN "N" ELSE "S",
   GPSLatitude |-> degToRationalArray(lat),
   GPSLongitudeRef |-> IF lon >= 0 THEN "E" ELSE "W",
   GPSLongitude |-> degToRationalArray(lon)]

\* the degrees the file handlers compute from a tag's three rationals: the
\* first component of each, over 1, 60 and 3600
\* (UserDashboard.tsx:612-613, 683-684)
TagDegrees(arr) ==
  arr[1][1] * UnitsPerDegree + arr[2][1] * UnitsPerMinute
    + arr[3][1] * UnitsPerSecond

\* the position the file handlers read from the tags
\* (UserDashboard.tsx:608-616, 679-687)
ExifCoordinates(gps) ==
  <<TagDegrees(gps.GPSLatitude) * (IF gps.GPSLatitudeRef = "S" THEN -1 ELSE 1),
    TagDegrees(gps.GPSLongitude) * (IF gps.GPSLongitudeRef = "W" THEN -1 ELSE 1)>>

\* insertExifIntoJpegDataUrl: a captured photo is tagged with a position
\* (UserDashboard.tsx:72-76)
insertExifIntoJpegDataUrl(lat, lon) ==
  /\ position' = <<lat, lon>>
  /\ gpsIfd' = getGpsIfd(lat, lon)
  /\ exifPosition' = NoPosition
  /\ UNCHANGED <<variant, users, app, faults, overlap, durable, local, ops, admin>>

\* the tagged photo is picked or dropped, and its tags are read
\* (UserDashboard.tsx:602-619, 673-689)
readExifGps ==
  /\ gpsIfd # NoGps
  /\ exifPosition = NoPosition
  /\ exifPosition' = ExifCoordinates(gpsIfd)
  /\ UNCHANGED <<variant, users, app, faults, overlap, durable, local, ops, admin,
                 position, gpsIfd>>

NextGeotag ==
  \/ \E lat \in Coordinates, lon \in Coordinates : insertExifIntoJpegDataUrl(lat, lon)
  \/ readExifGps

SpecGeotag == Init /\ [][NextGeotag]_vars

\* ------------------------------------------------------------------ claims
Status(a) == assets[a].status
ImageCount(a) == Cardinality(ListFiles(a))
DocCount(a) == Len(required_documents[a])
Preview(a) ==
  <<assets[a].image_url, assets[a].latitude, assets[a].longitude,
    assets[a].location_address>>

\* a step in which no call fails
NoFailure == faults' = faults

\* no call has failed so far
NoFailureYet == faults = MaxFaults

\* a step of a run in which no call has failed
NeverFailed == NoFailureYet'

\* a step of the reviewer's decision
ReviewerDecides == handleStatusUpdate(Authenticated) \/ handleStatusUpdate(NonVerified)

\* C1: whenever no operation is in flight, an asset's status is pending
\* exactly when all its required documents are checked and its stored images
\* are at least as many as its required documents (stated for the runs in
\* which no call has failed).
C1_PendingIffComplete ==
  Idle /\ NoFailureYet => \A a \in AssetIds : Status(a) = Pending <=> DurableCondition(a)

\* C2: every reconciler evaluation, in a run without failed calls, decides
\* as the condition over the documents and images in the store at that
\* moment decides: it writes pending exactly when that condition holds.
C2_DecidesOnFetchedValues ==
  [][\A o \in InFlight :
       checkAndSetPendingStatus(o) /\ NeverFailed
         => (o.cFires <=> DurableCondition(o.cSel))]_vars

\* C3: when an accepted upload completes, in a run without failed calls, on
\* a non-verified asset whose documents are all checked and whose image count
\* that upload has raised to the document count, the asset's status is
\* pending.
C3_AcceptedUploadSetsPending ==
  [][\A o \in InFlight :
       /\ checkAndSetPendingStatus(o) /\ NeverFailed
       /\ o.kind = "upload"
       /\ Status(o.cSel) = NonVerified
       /\ AllUploaded(required_documents[o.cSel])
       /\ o.name \in ListFiles(o.cSel)
       /\ ImageCount(o.cSel) >= DocCount(o.cSel)
       /\ ImageCount(o.cSel) - 1 < DocCount(o.cSel)
       => Status(o.cSel)' = Pending]_vars

\* C4: no step of the reconciler makes pending an asset that then has fewer
\* stored images than required documents (stated for the runs in which no
\* call has failed).
C4_NoPendingBelowImageCount ==
  [][\A o \in InFlight :
       /\ checkAndSetPendingStatus(o) /\ NeverFailed
       /\ Status(o.cSel) # Pending /\ Status(o.cSel)' = Pending
       => ImageCount(o.cSel)' >= DocCount(o.cSel)']_vars

\* C5: when a deletion completes, in a run without failed calls, on a
\* pending asset whose image count the removal has brought below the document
\* count, the asset's status is non-verified.
C5_DeletionRevertsPending ==
  [][\A o \in InFlight :
       /\ checkAndSetPendingStatus(o) /\ NeverFailed
       /\ o.kind = "delete"
       /\ Status(o.cSel) = Pending
       /\ o.url \notin ListFiles(o.cSel)
       /\ ImageCount(o.cSel) < DocCount(o.cSel)
       /\ ImageCount(o.cSel) + 1 >= DocCount(o.cSel)
       => Status(o.cSel)' = NonVerified]_vars

\* C6: a step that is not a reviewer's decision leaves an authenticated
\* asset authenticated (stated for the runs in which no call has failed).
C6_AuthenticatedIsTerminal ==
  [][\A a \in AssetIds :
       Status(a) = Authenticated /\ ~ReviewerDecides /\ NeverFailed
         => Status(a)' = Authenticated]_vars

\* C7: an asset becomes authenticated only from pending (stated for the
\* runs in which no call has failed).
C7_AuthenticatedOnlyFromPending ==
  [][\A a \in AssetIds :
       Status(a) # Authenticated /\ Status(a)' = Authenticated /\ NeverFailed
         => Status(a) = Pending]_vars

\* C8: a grant whose update succeeds, issued on an asset that is pending
\* in the store, makes it authenticated, and a reject makes it non-verified.
C8_DecisionOnPendingAsset ==
  [][\A d \in {Authenticated, NonVerified} :
       /\ handleStatusUpdate(d) /\ NoFailure
       /\ Status(assetDetails.id) = Pending
       => Status(assetDetails.id)' = d]_vars

\* a grant has just been issued from details fetched after the click, so
\* on an asset that was pending in the store
C8_Witness ==
  /\ Status("a1") = Authenticated
  /\ assetDetails = [id |-> "a1", status |-> Pending]
  /\ selectedUser = Null
  /\ detailsFetch = {}

\* C9 as claimed: every image in the Evidence Store has been accepted by
\* the verification gate.
C9_StoredImagesAccepted ==
  \A a \in AssetIds : \A n \in Names : storage[a][n] \in {NoFile, Accepted}

\* C9 as amended: in the verify-then-store variant every image in the
\* Evidence Store has been accepted by the verification gate.
C9_StoredImagesAcceptedVerifyFirst ==
  variant = VerifyThenStore =>
    \A a \in AssetIds : \A n \in Names : storage[a][n] \in {NoFile, Accepted}

\* the verify-then-store variant has stored an image
C9_Witness ==
  /\ variant = VerifyThenStore
  /\ \E a \in AssetIds : \E n \in Names : storage[a][n] = Accepted

\* the step that ends an upload the verifier has rejected by its answer
RejectedUploadEnds(o) ==
  IF variant = StoreThenVerify
  THEN removeRejected(o) /\ storage[o.cSel][o.name] = Rejected
  ELSE callVerifier(o) /\ ops' = End(o) /\ NoFailure

\* C10: when an upload that the verifier rejected ends, its image is not in
\* the Evidence Store and the asset's image_url, latitude, longitude and
\* location_address are as they were.
C10_RejectedImageNotKept ==
  [][\A o \in InFlight :
       RejectedUploadEnds(o)
         => /\ storage'[o.cSel][o.name] = NoFile
            /\ Preview(o.cSel)' = Preview(o.cSel)]_vars

\* the verification result the deployed variant decodes from a response
Decoded(r) == IF variant = StoreThenVerify THEN verifyImage(r) ELSE verifyInline(r)

\* the response of a verifier call that failed in the way named
Faulted(k) == CHOOSE r \in FaultResponses : r.kind = k

\* the rejection the gate's contract gives for a failed call
RejectionFor(reason) ==
  [is_real |-> FALSE, authenticity_score |-> "0", reason |-> reason]

\* what a verifier call that failed in the way named has to lead to: the
\* rejection with that reason, no change of the asset, and the upload either
\* ended with nothing stored or on its way to removing what it stored
FailsClosed(o, k, reason) ==
  verifierAnswers(o, Faulted(k)) =>
    /\ Decoded(Faulted(k)) = RejectionFor(reason)
    /\ assets' = assets
    /\ IF variant = StoreThenVerify
       THEN [o EXCEPT !.pc = "remove"] \in BagToSet(ops')
       ELSE ops' = End(o) /\ storage'[o.cSel][o.name] = NoFile

\* the removal that follows a failed verifier call in the first variant
\* takes the image out of the store and leaves the asset as it is
RemovedAfterFault(o) ==
  removeRejected(o) /\ storage[o.cSel][o.name] = Unverified =>
    storage'[o.cSel][o.name] = NoFile /\ assets' = assets

\* C11: a transport fault of the verifier call yields is_real false, score 0,
\* reason "network-error"; the upload is rejected, its image is not kept in
\* the Evidence Store, and no asset field or status changes.
C11_TransportFaultFailsClosed ==
  [][\A o \in InFlight :
       FailsClosed(o, "network-error", "network-error") /\ RemovedAfterFault(o)]_vars

\* C12: a non-success HTTP answer of the verifier is a rejection with reason
\* "verify-failed"; the image is not kept in the Evidence Store, and no asset
\* field or status changes.
C12_NonOkAnswerRejects ==
  [][\A o \in InFlight :
       FailsClosed(o, "non-ok", "verify-failed") /\ RemovedAfterFault(o)]_vars

\* the successful answers that carry the realness under valid and the
\* confidence under score only
AlternateShape == {r \in OkResponses : r.is_real = Absent /\ r.valid # Absent}

\* the same answer under the field names is_real and authenticity_score
AsPrimaryShape(r) ==
  [r EXCEPT !.is_real = r.valid, !.authenticity_score = r.score,
            !.valid = Absent, !.score = Absent]

\* C13: an answer in the shape {valid, score} is decoded to the same
\* decision and the same score as the equivalent answer in the shape
\* {is_real, authenticity_score}.
C13_AlternateFieldsDecodeAlike ==
  [][\A o \in InFlight : \A r \in AlternateShape :
       verifierAnswers(o, r)
         => /\ Decoded(r).is_real = Decoded(AsPrimaryShape(r)).is_real
            /\ Decoded(r).authenticity_score =
                 Decoded(AsPrimaryShape(r)).authenticity_score]_vars

\* the four preview fields as one update writes them for an upload
WrittenTogether(o) ==
  {<<o.name, o.lat, o.lon, ad>> : ad \in {"address", UnknownLocation, Null}}

\* C14: a step that changes image_url, latitude, longitude or
\* location_address of an asset is the preview update of an upload whose
\* stored image the gate accepted, and it writes the four fields together;
\* no other step (toggle, deletion, rejected upload, reconciler evaluation,
\* reviewer decision) changes any of them.
C14_PreviewWrittenOnAcceptOnly ==
  [][\A a \in AssetIds :
       Preview(a)' # Preview(a)
         => \E o \in InFlight :
              /\ updateAssetPreview(o) /\ o.cSel = a
              /\ storage[a][o.name] = Accepted
              /\ Preview(a)' \in WrittenTogether(o)]_vars

\* an accepted upload has written the preview fields with a position
C14_Witness ==
  \E a \in AssetIds :
    /\ assets[a].image_url # NoUrl
    /\ storage[a][assets[a].image_url] = Accepted
    /\ assets[a].latitude = Here[1] /\ assets[a].longitude = Here[2]
    /\ assets[a].location_address = "address"

\* the uploads in flight that have taken their file name
NamedUploads == {o \in InFlight : o.kind = "upload" /\ o.name # 0}

\* the path an upload writes to in the bucket
FilePath(o) == <<o.cSel, o.name>>

\* C15: two uploads never write to the same path of the Evidence Store:
\* the uploads in flight hold paths that differ from one another, and an
\* upload stores its image only where nothing is stored.
C15_UploadsWriteApart ==
  [][/\ \A o \in NamedUploads :
          /\ CopiesIn(o, ops) = 1
          /\ \A t \in NamedUploads \ {o} : FilePath(t) # FilePath(o)
     /\ \A o \in InFlight :
          uploadFile(o) /\ storage'[o.cSel][o.name] # storage[o.cSel][o.name]
            => storage[o.cSel][o.name] = NoFile]_vars

\* the status derived from the durable checklist and image count
DerivedStatus(a) == IF DurableCondition(a) THEN Pending ELSE NonVerified

\* C16: once every operation of an interleaving of uploads, deletions and
\* toggles has completed, the status of an asset that is not authenticated
\* is the status derived from its durable checklist and image count.
C16_QuiescentStatusDerived ==
  Idle => \A a \in AssetIds :
            Status(a) # Authenticated => Status(a) = DerivedStatus(a)

\* the uploads that are inside uploadImageToSupabase: storage write, gate
\* call, asset update or reconciler evaluation
InPipeline == {o \in NamedUploads : o.pc \in {"store", "verify", "remove", "accept", "check"}}

\* C17: for the open asset view at most one upload pipeline is in flight
\* at any time.
C17_OneUploadPipeline ==
  BagCardinality([o \in InPipeline |-> CopiesIn(o, ops)]) <= 1

\* the is_uploaded flags of an asset's required documents
Flags(a) == [i \in 1..DocCount(a) |-> required_documents[a][i].is_uploaded]

\* a toggle that gives an item the value the toggle before it gave it, that
\* toggle having completed
SecondOfTwo(o) ==
  /\ o.kind = "toggle"
  /\ IF o.pc = "update" THEN RepeatsValue(o) ELSE o.again
  /\ CopiesIn(o, ops) = 1
  /\ \A t \in InFlight \ {o} : ~(t.kind = "toggle" /\ t.doc = o.doc)

\* C18: the second of two toggles of one item to one value, made in
\* succession, changes no is_uploaded flag and not the asset's status, in
\* neither of its steps.
C18_RepeatedToggleChangesNothing ==
  [][\A o \in InFlight :
       /\ SecondOfTwo(o)
       /\ updateRequiredDocument(o) \/ checkAndSetPendingStatus(o)
       => /\ Flags(o.cSel)' = Flags(o.cSel)
          /\ Status(o.cSel)' = Status(o.cSel)]_vars

\* the storage.upload calls one upload makes, given how its first call went:
\* the first variant calls again, with upsert, when the first call gave an
\* error
StorageUploadCalls(o, first) ==
  IF variant = StoreThenVerify
     /\ ~(first = "ok" /\ storage[o.cSel][o.name] = NoFile)
  THEN 2 ELSE 1

\* C19: no call is issued again after it has failed: an upload makes at
\* most one storage.upload call.
C19_NoSecondStorageAttempt ==
  [][\A o \in InFlight : \A first \in {"ok", "fail"}, second \in {"ok", "fail"} :
       uploadFileWith(o, first, second) => StorageUploadCalls(o, first) <= 1]_vars

\* one hundredth of an arc-second
Tolerance == 10

\* C20: the coordinates read from the tags that getGpsIfd wrote for a
\* latitude/longitude pair are within one hundredth of an arc-second of that
\* pair.
C20_GeotagRoundTrip ==
  exifPosition # NoPosition =>
    /\ Abs(exifPosition[1] - position[1]) <= Tolerance
    /\ Abs(exifPosition[2] - position[2]) <= Tolerance

\* an upload for which neither the device nor the file gave a position
Unlocated(o) == o.kind = "upload" /\ <<o.lat, o.lon>> = NoFix

\* C21: an accepted upload for which no coordinates were available goes on
\* to the reconciler, and the preview update it makes records no position:
\* the asset's latitude and longitude are null after it.
C21_NoPositionRecordedWithoutFix ==
  [][\A o \in InFlight :
       updateAssetPreview(o) /\ Unlocated(o)
         => /\ [o EXCEPT !.pc = "check"] \in BagToSet(ops')
            /\ assets'[o.cSel].image_url = o.name
                 => /\ assets'[o.cSel].latitude = NoCoord
                    /\ assets'[o.cSel].longitude = NoCoord]_vars

\* the numerators of a tag's three rationals
Numerators(arr) == {arr[i][1] : i \in 1..3}

\* C22: the GPS block written for a coordinate pair has latitude reference
\* S exactly when the latitude is negative and N otherwise, longitude
\* reference W exactly when the longitude is negative and E otherwise, and
\* no negative degree, minute or second numerator.
C22_HemisphereFromSign ==
  gpsIfd # NoGps =>
    /\ gpsIfd.GPSLatitudeRef = (IF position[1] < 0 THEN "S" ELSE "N")
    /\ gpsIfd.GPSLongitudeRef = (IF position[2] < 0 THEN "W" ELSE "E")
    /\ \A n \in Numerators(gpsIfd.GPSLatitude) \cup Numerators(gpsIfd.GPSLongitude) :
         n >= 0

\* a block has been written for a southern latitude and an eastern longitude
C22_Witness ==
  /\ gpsIfd # NoGps
  /\ position[1] < 0 /\ gpsIfd.GPSLatitudeRef = "S"
  /\ position[2] > 0 /\ gpsIfd.GPSLongitudeRef = "E"

\* the uploads that stand before the call of getAddressFromCoords: the gate
\* has been passed and the upload has coordinates
AboutToGeocode ==
  {o \in InFlight : /\ o.kind = "upload" /\ o.pc = "accept"
                    /\ o.lat # NoCoord /\ o.lon # NoCoord}

\* the upload's image is in the store with the gate's accept
AcceptedByGate(o) == storage[o.cSel][o.name] = Accepted

\* C23: an upload stands before the reverse geocoder only when the gate
\* has accepted its image: an upload that was rejected, or whose
\* verification call failed, never gets to the geocoder.
C23_GeocodeOnlyAfterAccept ==
  \A o \in AboutToGeocode : AcceptedByGate(o)

\* an upload in flight has had its position geocoded and written
C23_Witness ==
  \E o \in InFlight :
    /\ o.kind = "upload" /\ o.pc = "check"
    /\ AcceptedByGate(o)
    /\ assets[o.cSel].image_url = o.name
    /\ assets[o.cSel].location_address = "address"

\* C24: when the reverse geocoder's call fails, answers with something that
\* is not JSON, or answers without a display name, the accepted upload goes
\* on: its asset update writes "Unknown Location" as the address, and the
\* upload continues to the reconciler.
C24_GeocoderFailureGivesUnknownLocation ==
  [][\A a \in AssetIds :
       faults' < faults /\ Preview(a)' # Preview(a)
         => \A o \in InFlight : \A geo \in GeocoderFailures :
              updateAssetPreviewWith(o, geo, "ok")
                => /\ assets'[o.cSel].location_address = UnknownLocation
                   /\ [o EXCEPT !.pc = "check"] \in BagToSet(ops')]_vars

\* an accepted upload has written its preview after a failed geocoder call
C24_Witness ==
  \E o \in InFlight :
    /\ o.kind = "upload" /\ o.pc = "check"
    /\ assets[o.cSel].image_url = o.name
    /\ assets[o.cSel].location_address = UnknownLocation
    /\ faults < MaxFaults

\* the position fields of an asset that are null
NullPositionFields(a) ==
  {f \in {"latitude", "longitude", "location_address"} :
     assets[a][f] = (IF f = "location_address" THEN Null ELSE NoCoord)}

\* C25: an asset's latitude, longitude and location_address are all null
\* or all non-null.
C25_PositionAllOrNothing ==
  \A a \in AssetIds : Cardinality(NullPositionFields(a)) \in {0, 3}

\* an asset has a position: none of the three fields is null
C25_Witness ==
  \E a \in AssetIds : NullPositionFields(a) = {}

\* C26: every required document has a non-null uploaded_at exactly when its
\* is_uploaded flag is true.
C26_StampedIffUploaded ==
  \A a \in AssetIds : \A i \in 1..DocCount(a) :
    (required_documents[a][i].uploaded_at # Null)
      <=> required_documents[a][i].is_uploaded

\* a toggle has just unchecked one document while another is checked
C26_Witness ==
  \E o \in InFlight : \E j \in 1..DocCount(o.cSel) :
    /\ o.kind = "toggle" /\ o.pc = "check" /\ ~o.val
    /\ required_documents[o.cSel][o.doc] = ToggledDoc(FALSE)
    /\ required_documents[o.cSel][j] = ToggledDoc(TRUE)

\* the rows of an asset's required documents other than the one given
OtherRows(docs, i) == [j \in (1..Len(docs)) \ {i} |-> docs[j]]

\* C27: a step that changes the required documents of an asset is the
\* update of a checklist toggle for that asset, which changes the toggled
\* row and deletes none; uploads, deletions, reconciler evaluations and the
\* reviewer's decisions leave every row as it is.
C27_DocumentsChangedByTogglesOnly ==
  [][\A a \in AssetIds :
       required_documents'[a] # required_documents[a]
         => \E o \in InFlight :
              /\ updateRequiredDocument(o) /\ o.cSel = a
              /\ Len(required_documents'[a]) = Len(required_documents[a])
              /\ OtherRows(required_documents'[a], o.doc)
                   = OtherRows(required_documents[a], o.doc)]_vars

\* an upload and the reviewer's decision have taken place on an asset with
\* a checked document
C27_Witness ==
  \E a \in AssetIds :
    /\ Status(a) = Authenticated
    /\ ImageCount(a) > 0
    /\ \E i \in 1..DocCount(a) : required_documents[a][i].is_uploaded

\* a handler is run without its video element or without its file
StartedWithNothing ==
  \/ captureWith("missing")
  \/ StartFileUploadWith("gallery", "missing")
  \/ StartFileUploadWith("drop", "missing")

C29_ForeignUrlDeletesNothing ==
  [][handleDeleteImage(ForeignUrl)
       => /\ ops' = ops
          /\ faults' = faults
          /\ durable' = durable
          /\ ~processing']_vars

\* The dialog of a pending asset shows its images and takes a click on delete.
C29_Witness ==
  /\ DialogInteractive
  /\ assetImages # {}
  /\ Status(selectedAsset) = Pending

\* the operation o is, after the step, waiting for its reconciler evaluation
AtReconciler(o) ==
  \E t \in BagToSet(ops') :
    /\ t.pc = "check"
    /\ t.kind = o.kind /\ t.cSel = o.cSel
    /\ t.doc = o.doc /\ t.name = o.name /\ t.url = o.url

\* C30: a checklist update that succeeds, the asset update of an accepted
\* upload and a removal that succeeds each leave their operation at the
\* reconciler, whose evaluation is the operation's next and last step; a
\* checklist update that fails, a verdict and the removal of a rejected image
\* do not, and the reconciler is evaluated for an upload only when the gate
\* accepted its image.
C30_ReconcilerFollowsSuccess ==
  [][ops' # ops =>
       \A o \in InFlight :
         /\ o.pc = "update" /\ updateRequiredDocument(o)
              => IF faults' = faults THEN AtReconciler(o) ELSE ops' = End(o)
         /\ o.pc = "accept" /\ updateAssetPreview(o) => AtReconciler(o)
         /\ o.pc = "remove" /\ removeImage(o) /\ storage' # storage
              => AtReconciler(o)
         /\ o.pc = "verify" /\ callVerifier(o) => ~AtReconciler(o)
         /\ o.pc = "remove" /\ removeRejected(o) => ops' = End(o)
         /\ o.pc = "check" /\ o.kind = "upload" /\ checkAndSetPendingStatus(o)
              => AcceptedByGate(o)]_vars

\* A deletion has removed its image and is at the reconciler.
C30_Witness ==
  \E o \in InFlight :
    /\ o.kind = "delete" /\ o.pc = "check"
    /\ storage[o.cSel][o.url] = NoFile

\* --------------------------------------------------------------- progress
\* an awaited call returns: every step of an operation in flight is taken
\* in the end
Returns ==
  /\ WF_vars(\E o \in InFlight : uploadImageToSupabase(o))
  /\ WF_vars(\E o \in InFlight : uploadFile(o))
  /\ WF_vars(\E o \in InFlight : callVerifier(o))
  /\ WF_vars(\E o \in InFlight : removeRejected(o))
  /\ WF_vars(\E o \in InFlight : updateAssetPreview(o))
  /\ WF_vars(\E o \in InFlight : removeImage(o))
  /\ WF_vars(\E o \in InFlight : updateRequiredDocument(o))
  /\ WF_vars(\E o \in InFlight : checkAndSetPendingStatus(o))

SpecReturns == Init /\ [][NextDashboard]_vars /\ Returns

\* an upload or a deletion is in flight
Running == \E o \in InFlight : o.kind \in {"upload", "delete"}

\* C31: an upload or a deletion that has started completes, and when it has
\* completed processing is false, whichever of its calls failed.
C31_OperationsComplete == Running ~> (~Running /\ ~processing)

\* An upload has taken its name, one of the calls has failed, and nothing is
\* in flight any more.
C31_Witness ==
  /\ Idle /\ ~processing
  /\ now > 0
  /\ faults < MaxFaults

\* ------------------------------------------------- the reviewer's user list
\* two beneficiaries in the reviewer's list, each with an asset whose status
\* the beneficiary's own dashboard has brought about
ReviewedUsers == {"u1", "u2"}
ReviewedAssets == {AssetOf(u) : u \in ReviewedUsers}
Statuses == {NonVerified, Pending, Authenticated}

InitReview ==
  /\ variant \in Variants
  /\ faults = MaxFaults
  /\ overlap = 1
  /\ users = [u \in UserIds |-> NewUser]
  /\ \E st \in [ReviewedAssets -> Statuses] :
       assets = [a \in ReviewedAssets |-> [NewAsset EXCEPT !.status = st[a]]]
  /\ required_documents = [a \in ReviewedAssets |-> <<>>]
  /\ storage = [a \in ReviewedAssets |-> [n \in Names |-> NoFile]]
  /\ now = 0
  /\ selectedAsset = Null
  /\ requiredDocs = <<>>
  /\ assetImages = {}
  /\ processing = FALSE
  /\ uploading = FALSE
  /\ showUploadDialog = FALSE
  /\ showCamera = FALSE
  /\ ops = EmptyBag
  /\ selectedUser = Null
  /\ assetDetails = NoDetails
  /\ detailsFetch = {}
  /\ InitGeotag
  /\ Mounted

NextReview ==
  \/ \E u \in ReviewedUsers : handleUserClick(u)
  \/ \E u \in ReviewedUsers : fetchAssetDetails(u)
  \/ ClosePopup
  \/ handleStatusUpdate(Authenticated)
  \/ handleStatusUpdate(NonVerified)

SpecReview == InitReview /\ [][NextReview]_vars

\* C32: a grant or reject changes the asset of the user selected in the
\* popup and no other asset (stated for runs in which no call has failed).
C32_DecisionOnSelectedUser ==
  [][\A d \in {Authenticated, NonVerified} :
       handleStatusUpdate(d) /\ NeverFailed
         => \A a \in ReviewedAssets :
              assets'[a] # assets[a] => a = AssetOf(selectedUser)]_vars

\* C33: in the store-then-verify pipeline the removal that follows a
\* rejection never takes from the Evidence Store an image the gate has
\* accepted, which only another upload of the asset can have had accepted.
C33_RejectionSparesAcceptedImages ==
  [][\A o \in InFlight :
       /\ variant = StoreThenVerify
       /\ o.pc = "remove" /\ removeRejected(o)
       /\ storage[o.cSel][o.name] = Accepted
       => storage'[o.cSel][o.name] = Accepted]_vars

\* C34: a reconciler evaluation for an asset that has no required document,
\* or whose fetch of the required documents fails, does not set the asset
\* to pending.
C34_NoPendingWithoutDocuments ==
  [][\A o \in InFlight : \A rd \in Outcomes, li \in Outcomes, wr \in Outcomes :
       /\ o.pc = "check"
       /\ checkAndSetPendingStatusWith(o, rd, li, wr)
       /\ DocCount(o.cSel) = 0 \/ rd = "fail"
       /\ Status(o.cSel) # Pending
       => Status(o.cSel)' # Pending]_vars

\* ------------------------------------------------ failing storage writes
\* one failure more than the budget: both attempts of the first variant's
\* storage write can fail
InitRetry ==
  /\ variant \in Variants
  /\ faults = MaxFaults + 1
  /\ overlap = 1
  /\ InitStore
  /\ InitGeotag
  /\ Mounted

SpecRetry == InitRetry /\ [][NextDashboard]_vars

\* C35: a storage write after which nothing is stored at the upload's path
\* ends the upload there: the asset's preview, location and status are as
\* they were, and neither the verification gate nor the reconciler is
\* reached by that upload.
C35_FailedWriteEndsUpload ==
  [][\A o \in InFlight :
       /\ o.pc = "store" /\ uploadFile(o)
       /\ storage'[o.cSel][o.name] = NoFile
       => /\ assets' = assets
          /\ ops' = End(o)]_vars

\* The first variant's upload has ended after both attempts of its storage
\* write failed: nothing is stored and the asset has no preview.
C35_Witness ==
  /\ variant = StoreThenVerify
  /\ Idle /\ ~processing
  /\ now = 1
  /\ faults = MaxFaults - 1
  /\ \A a \in AssetIds :
       /\ storage[a][now] = NoFile
       /\ assets[a].image_url = NoUrl

\* two verifier answers that carry the same realness and differ in nothing
\* but their scores
SameRealness(r1, r2) ==
  /\ r1.kind = "ok" /\ r2.kind = "ok"
  /\ r1.is_real = r2.is_real /\ r1.valid = r2.valid
  /\ <<r1.authenticity_score, r1.score>> # <<r2.authenticity_score, r2.score>>

\* a JSON body with the realness fields given and one score beside each
Body(real, valid, s) ==
  [kind |-> "ok", is_real |-> real, valid |-> valid,
   authenticity_score |-> IF real = Absent THEN Absent ELSE s,
   score |-> IF valid = Absent THEN Absent ELSE s]

\* the pairs of such answers
ScorePairs ==
  {p \in {<<Body(i, v, s1), Body(i, v, s2)>> :
            i \in JsonBooleans \cup {Absent}, v \in JsonBooleans \cup {Absent},
            s1 \in Scores, s2 \in Scores} :
     SameRealness(p[1], p[2])}

\* C36: the step an upload takes on a verifier answer is the step it takes
\* on any answer with the same realness and another score: the Evidence
\* Store, the asset and the upload's way on are the same, and so is every
\* state that follows.
C36_ScoreDecidesNothing ==
  [][ops' # ops =>
       \A o \in InFlight :
         o.pc = "verify" =>
           \A p \in ScorePairs :
             verifierAnswers(o, p[1]) => verifierAnswers(o, p[2])]_vars

\* The gate has accepted the image of an upload that is on its way to the
\* asset update or, in the second variant, to the storage write.
C36_Witness ==
  \E o \in InFlight :
    /\ o.kind = "upload"
    /\ IF variant = StoreThenVerify
       THEN o.pc = "accept" /\ storage[o.cSel][o.name] = Accepted
       ELSE o.pc = "store" /\ o.blob = Accepted

\* ------------------------------------------------- the two pipelines
\* the verifier's answers that carry is_real and authenticity_score
PrimaryShape ==
  {Body(i, v, s) : i \in JsonBooleans, v \in JsonBooleans \cup {Absent},
                   s \in Scores}

\* an upload that has read its file name and has not been accepted (yet)
Undecided(o) == o.kind = "upload" /\ o.pc \in {"store", "verify", "remove"}

\* the upload's image has been accepted by the gate: it is on its way to
\* the preview update, or (second variant) to the storage write that
\* precedes it
Passed(o) ==
  /\ o.kind = "upload"
  /\ o.pc \in {"accept", "check"} \/ (o.pc = "store" /\ o.blob = Accepted)

\* the content of the Evidence Store: the file an upload has written before
\* the gate's answer is no content until the upload is accepted
Kept ==
  [a \in AssetIds |->
     [n \in Names |->
        IF \E o \in InFlight : Undecided(o) /\ o.cSel = a /\ o.name = n
        THEN NoFile ELSE storage[a][n]]]

\* the step takes the upload o to the preview update
Accepts(o) ==
  Undecided(o) /\ \E t \in BagToSet(ops') : t.kind = "upload" /\ t.pc = "accept"

\* what a step of the upload o does to the store's content, whichever
\* pipeline runs it: the image appears when the upload is accepted
Settles(o) ==
  /\ Kept' = IF Accepts(o) THEN [Kept EXCEPT ![o.cSel][o.name] = Accepted]
             ELSE Kept
  /\ o.pc \notin {"accept", "check"}
       => UNCHANGED <<assets, required_documents, selectedAsset, requiredDocs,
                      assetImages>>
  /\ IF ops' = End(o)
     THEN ~processing' /\ ~uploading' /\ ~showCamera'
     ELSE processing' /\ UNCHANGED <<uploading, showCamera>>
  /\ UNCHANGED showUploadDialog

\* a camera capture in flight
FromCamera == {o \in InFlight : o.kind = "upload" /\ o.origin = "camera"}

\* C37: the steps of a camera capture's upload that no storage or database
\* fault hits, answered by a verifier response with is_real and
\* authenticity_score, have the same effect in the store-then-verify and in
\* the verify-then-store pipeline: the upload is accepted exactly when
\* is_real is true; the image is in the Evidence Store from then on and
\* never otherwise; the asset's preview and location fields are written once
\* by the accepted upload from its arguments; the status is written by the
\* reconciler from the values of the render that started the upload.  The
\* formula names no variant.
C37_PipelinesAgree ==
  [][\A o \in FromCamera :
       /\ uploadImageToSupabase(o) => Settles(o)
       /\ o.pc = "store" /\ uploadFileWith(o, "ok", "ok")
            => Settles(o) /\ (Accepts(o) <=> Passed(o))
       /\ \A r \in PrimaryShape :
            o.pc = "verify" /\ verifierAnswers(o, r)
              => /\ Settles(o)
                 /\ (r.is_real = "true") <=> (\E t \in BagToSet(ops') : Passed(t))
                 /\ (r.is_real = "false") <=> (\A t \in BagToSet(ops') : t.pc = "remove")
       /\ o.pc = "remove" /\ removeRejected(o) /\ faults' = faults
            => Settles(o) /\ ops' = End(o)
       /\ \A geo \in GeocoderResults :
            o.pc = "accept" /\ updateAssetPreviewWith(o, geo, "ok")
              => /\ Settles(o)
                 /\ assets' = [assets EXCEPT ![o.cSel] = PreviewUpdated(@, o, geo)]
                 /\ UNCHANGED <<required_documents, selectedAsset, requiredDocs,
                                assetImages>>
       /\ o.pc = "check" /\ checkAndSetPendingStatusWith(o, "ok", "ok", "ok")
            => /\ Settles(o)
               /\ assets' = [assets EXCEPT ![o.cSel].status =
                               IF o.cFires THEN Pending ELSE @]
               /\ requiredDocs' = required_documents[o.cSel]
               /\ assetImages' = {n \in Names : Kept[o.cSel][n] # NoFile}
               /\ UNCHANGED <<required_documents, selectedAsset>>]_vars

\* a camera capture's upload has been accepted: its image is in the store
\* and the preview fields hold its name and position
C37_Witness ==
  \E o \in FromCamera :
    /\ o.pc = "check"
    /\ Kept[o.cSel][o.name] = Accepted
    /\ assets[o.cSel].image_url = o.name
    /\ assets[o.cSel].latitude = o.lat

\* the store after k camera captures of an asset were accepted while its
\* documents were unchecked: k images, the preview of the last one, and
\* the status still non-verified
AfterUploads(k) ==
  /\ users = [u \in UserIds |-> NewUser]
  /\ assets = [a \in AssetIds |->
                 IF k = 0 THEN NewAsset
                 ELSE [NewAsset EXCEPT !.image_url = k,
                                       !.latitude = Here[1],
                                       !.longitude = Here[2],
                                       !.location_address = "address"]]
  /\ \E n \in 1..MaxDocs :
       required_documents = [a \in AssetIds |-> [i \in 1..n |-> NewDoc]]
  /\ storage = [a \in AssetIds |->
                  [n \in Names |-> IF n <= k THEN Accepted ELSE NoFile]]
  /\ now = k

\* the dashboards at rest over such a store
InitStatus ==
  /\ variant \in Variants
  /\ faults = MaxFaults
  /\ overlap = 1
  /\ \E k \in 0..MaxUploads : AfterUploads(k)
  /\ selectedAsset = Null
  /\ requiredDocs = <<>>
  /\ assetImages = {}
  /\ processing = FALSE
  /\ uploading = FALSE
  /\ showUploadDialog = FALSE
  /\ showCamera = FALSE
  /\ ops = EmptyBag
  /\ selectedUser = Null
  /\ assetDetails = NoDetails
  /\ detailsFetch = {}
  /\ InitGeotag
  /\ Mounted

\* the steps that lead to a write of a status: the checklist with the
\* reconciler, and the reviewer
NextStatus ==
  \/ \E a \in AssetIds : openAssetDialog(a)
  \/ CloseDialog
  \/ \E i \in 1..MaxDocs : handleDocumentCheck(i)
  \/ \E o \in InFlight : updateRequiredDocument(o)
  \/ \E o \in InFlight : checkAndSetPendingStatus(o)
  \/ \E u \in Users : handleUserClick(u)
  \/ \E u \in Users : fetchAssetDetails(u)
  \/ ClosePopup
  \/ handleStatusUpdate(Authenticated)
  \/ handleStatusUpdate(NonVerified)

SpecStatus == InitStatus /\ [][NextStatus]_vars

\* ------------------------------------------------- the user records
\* fetchUsers: the status column of table users as the list receives it
fetchUsers == [u \in UserIds |-> users[u].status]

\* the values of the status filter
Filters == {"all", NonVerified, Pending, Authenticated}

\* filteredUsers: the rows the list shows under a filter
filteredUsers(filter) ==
  {u \in UserIds : filter = "all" \/ fetchUsers[u] = filter}

\* the step is an evaluation of the reconciler or a reviewer's decision
WritesStatus ==
  \/ /\ ops' # ops
     /\ \E o \in InFlight : o.pc = "check" /\ checkAndSetPendingStatus(o)
  \/ /\ selectedUser # Null /\ selectedUser' = Null
     /\ handleStatusUpdate(Authenticated) \/ handleStatusUpdate(NonVerified)

\* C38: an evaluation of the reconciler and a grant or reject of the
\* reviewer change nothing but the status of asset records: the rows of
\* table users, the statuses the reviewer's list shows and the rows each
\* value of the status filter selects stay as they were, and so do the
\* other fields of the assets, the documents and the stored images.
C38_UserStatusNotWritten ==
  [][WritesStatus
       => /\ users' = users
          /\ fetchUsers' = fetchUsers
          /\ \A f \in Filters : filteredUsers(f)' = filteredUsers(f)
          /\ \A a \in AssetIds :
               assets'[a] = [assets[a] EXCEPT !.status = assets'[a].status]
          /\ UNCHANGED <<required_documents, storage>>]_vars

\* the reviewer has granted the asset of a user the list still shows, and
\* the filter still selects, as non-verified
C38_Witness ==
  \E u \in Users :
    /\ assets[AssetOf(u)].status = Authenticated
    /\ fetchUsers[u] = NonVerified
    /\ u \in filteredUsers(NonVerified) /\ u \notin filteredUsers(Authenticated)

\* the two coordinates' tags of a photo that has been tagged
WrittenTags ==
  IF position = NoPosition THEN {}
  ELSE {gpsIfd.GPSLatitude, gpsIfd.GPSLongitude}

\* C39: the tags degToRationalArray produces hold minutes in 0..59 and
\* seconds as a numerator in 0..5999 over the denominator 100, so that the
\* seconds are below 60.00 for every coordinate.
C39_SecondsBelowSixty ==
  \A arr \in WrittenTags :
    /\ arr[2] \in (0..59) \X {1}
    /\ arr[3] \in (0..5999) \X {100}

\* ------------------------------------------------------------------- App
Digits == {"0", "1", "2", "3", "4", "5", "6", "7", "8", "9"}

\* what is typed into the login screen: a national number with a space, an
\* international number, a number that is too short
PhoneInputs ==
  {<<"9", "8", "7", "6", "5", " ", "4", "3", "2", "1", "0">>,
   <<"+", "1", "5", "5", "5", "0", "1", "0", "0">>,
   <<"1", "2", "3">>}

\* replace(/[^\d+]/g, "") and the "+91" prefix (unnamed/part_000:25-30, 74-75)
IsDialable(c) == c \in Digits \cup {"+"}
Normalized(raw) ==
  LET kept == SelectSeq(raw, IsDialable) IN
    IF Len(kept) > 0 /\ kept[1] = "+" THEN kept ELSE <<"+", "9", "1">> \o kept

\* /^\+\d{7,15}$/ (unnamed/part_000:32)
IsE164(p) ==
  /\ Len(p) \in 8..16
  /\ p[1] = "+"
  /\ \A i \in 2..Len(p) : p[i] \in Digits

\* the handlers await their calls, and the screen shown stays in use
\* meanwhile: the user lets fewer than overlap calls run at the same time
CanCall == Cardinality(calls) < overlap

\* a call of the auth service with its arguments
Call(kind, p, token) == [kind |-> kind, phone |-> p, token |-> token]

\* the dashboards and the store, which App's handlers leave alone
mounted == <<geotag, variant, users, faults, durable, overlap, local, ops, admin>>

\* the store with no dashboard opened yet and App on its splash screen
\* (unnamed/part_000:15-17); two calls may be awaited at the same time
InitApp ==
  /\ variant \in Variants
  /\ faults = MaxFaults
  /\ overlap = 2
  /\ InitStore
  /\ position = NoPosition
  /\ gpsIfd = NoGps
  /\ exifPosition = NoPosition
  /\ appState = "splash"
  /\ phone = NoPhone
  /\ userRole = Null
  /\ calls = {}
  /\ otp = {}

\* (unnamed/part_000:20)
handleSplashComplete ==
  /\ appState = "splash"
  /\ appState' = "login"
  /\ UNCHANGED <<mounted, phone, userRole, calls, otp>>

\* handleLogin up to the call of signInWithOtp (unnamed/part_000:23-39)
handleLogin(phoneNumberRaw) ==
  /\ appState = "login" /\ CanCall
  /\ IF IsE164(Normalized(phoneNumberRaw))
     THEN /\ phone' = Normalized(phoneNumberRaw)
          /\ calls' = calls \cup
                        {Call("signInWithOtp", Normalized(phoneNumberRaw), Null)}
     ELSE UNCHANGED <<phone, calls>>
  /\ UNCHANGED <<mounted, appState, userRole, otp>>

\* signInWithOtp returns: an error, returned or thrown, leaves the login
\* screen (unnamed/part_000:39-53)
signInWithOtp(c, outcome) ==
  /\ c \in calls /\ c.kind = "signInWithOtp"
  /\ calls' = calls \ {c}
  /\ IF outcome = "ok"
     THEN /\ otp' = otp \cup {c.phone}
          /\ appState' = "otp"
     ELSE UNCHANGED <<otp, appState>>
  /\ UNCHANGED <<mounted, phone, userRole>>

\* the tokens typed into the OTP screen
Tokens == {"right", "wrong"}

\* handleOTPVerify up to the call of verifyOtp (unnamed/part_000:57-63)
handleOTPVerify(token) ==
  /\ appState = "otp" /\ CanCall
  /\ calls' = calls \cup {Call("verifyOtp", phone, token)}
  /\ UNCHANGED <<mounted, appState, phone, userRole, otp>>

\* what the select of the role comes to: a row with a role, a row without,
\* or an error
RoleLookups == {"superadmin", "loanmanager", "user", Null, "error"}

\* the auth service verifies the token of a one-time password it has out
\* for the phone
Verifies(c, outcome) == outcome = "ok" /\ c.token = "right" /\ c.phone \in otp

\* a handler that goes on to the dashboard whatever verifyOtp answered: the
\* handler C40 does not hold of
verifyOtpUnchecked(c, outcome, found) ==
  /\ c \in calls /\ c.kind = "verifyOtp"
  /\ calls' = calls \ {c}
  /\ otp' = IF Verifies(c, outcome) THEN otp \ {c.phone} ELSE otp
  /\ userRole' = IF found \in {Null, "error"} THEN "user" ELSE found
  /\ appState' = "dashboard"
  /\ UNCHANGED <<mounted, phone>>

\* verifyOtp returns: on an error the handler returns; otherwise the role
\* is read from table users, "user" when there is none, and the dashboard
\* is shown (unnamed/part_000:64-96)
verifyOtp(c, outcome, found) ==
  /\ c \in calls /\ c.kind = "verifyOtp"
  /\ calls' = calls \ {c}
  /\ IF Verifies(c, outcome)
     THEN /\ otp' = otp \ {c.phone}
          /\ userRole' = IF found \in {Null, "error"} THEN "user" ELSE found
          /\ appState' = "dashboard"
     ELSE UNCHANGED <<otp, userRole, appState>>
  /\ UNCHANGED <<mounted, phone>>

\* handleLogout up to the call of signOut; every dashboard has the button
\* (unnamed/part_000:99-100, 124-136)
handleLogout ==
  /\ appState = "dashboard" /\ CanCall
  /\ userRole \in {"superadmin", "loanmanager", "user"}
  /\ calls' = calls \cup {Call("signOut", NoPhone, Null)}
  /\ UNCHANGED <<mounted, appState, phone, userRole, otp>>

\* signOut returns, its error not looked at (unnamed/part_000:100-104)
signOut(c) ==
  /\ c \in calls /\ c.kind = "signOut"
  /\ calls' = calls \ {c}
  /\ appState' = "login"
  /\ phone' = NoPhone
  /\ userRole' = Null
  /\ UNCHANGED <<mounted, otp>>

\* the OTP screen's back button (unnamed/part_000:107-110)
handleBackToLogin ==
  /\ appState = "otp"
  /\ appState' = "login"
  /\ phone' = NoPhone
  /\ UNCHANGED <<mounted, userRole, calls, otp>>

NextApp ==
  \/ handleSplashComplete
  \/ \E raw \in PhoneInputs : handleLogin(raw)
  \/ \E c \in calls, outcome \in {"ok", "error"} : signInWithOtp(c, outcome)
  \/ \E token \in Tokens : handleOTPVerify(token)
  \/ \E c \in calls, outcome \in {"ok", "error"}, found \in RoleLookups :
       verifyOtp(c, outcome, found)
  \/ handleLogout
  \/ \E c \in calls : signOut(c)
  \/ handleBackToLogin

SpecApp == InitApp /\ [][NextApp]_vars

\* the phones the login screen accepts
Entered == {Normalized(raw) : raw \in {r \in PhoneInputs : IsE164(Normalized(r))}}

\* C40: App comes to the dashboard only by the return of a verifyOtp call
\* that succeeded, made with the right token for a phone that was entered
\* at login and that a one-time password was out for; whenever the
\* dashboard is shown a role is set; and the return of a logout's signOut
\* shows the login screen with the phone and the role cleared.
C40_DashboardOnlyAfterVerification ==
  [][/\ appState' = "dashboard" => userRole' # Null
     /\ appState # "dashboard" /\ appState' = "dashboard"
          => \E c \in calls :
               /\ \E found \in RoleLookups : verifyOtp(c, "ok", found)
               /\ c.token = "right"
               /\ c.phone \in Entered /\ c.phone \in otp
     /\ \A c \in calls :
          signOut(c) => appState' = "login" /\ phone' = NoPhone /\ userRole' = Null]_vars

\* the reviewer's dashboard is shown for the national number while a
\* one-time password for the other number is still out
C40_Witness ==
  /\ appState = "dashboard"
  /\ userRole = "loanmanager"
  /\ phone = BeneficiaryPhone
  /\ otp = {Normalized(<<"+", "1", "5", "5", "5", "0", "1", "0", "0">>)}

====
